---- MODULE Spec2Model ----
(***************************************************************************)
(* examples/rust-build/src/main.rs: a command-line program that loads a    *)
(* JSON configuration file, resolves parameter_1 (optional, defaulted) and *)
(* parameter_2 (mandatory), logs them and exits.                           *)
(*                                                                         *)
(* One process run is modelled statement by statement (pc).  The operating *)
(* system supplies argv and the file system; Rerun starts the program      *)
(* again on the same argv and file system.                                 *)
(***************************************************************************)
EXTENDS Naturals, Sequences, FiniteSets, TLC

VARIABLES
    argv,         \* the argument vector the OS hands to the process
    fs,           \* the file system: path -> file
    pc,           \* position in main / load_config
    run,          \* number of the current process run
    prev,         \* outcome of the previous run (history)
    logger,       \* TRUE once env_logger::init() has run in this process
    log,          \* log macro invocations of this run, in order
    stderr,       \* panic messages written by the runtime
    exitCode,     \* process exit status, NoExit while running
    args,         \* main: args
    config_file,  \* main: config_file / load_config: its parameter
    file,         \* load_config: file (the open handle)
    contents,     \* load_config: contents
    result,       \* value returned by load_config
    config,       \* main: config
    parameter_1,  \* main: parameter_1
    parameter_2,  \* main: parameter_2
    opens,        \* File::open calls that returned a handle, this run
    reads         \* read_to_string calls, this run

vars == <<argv, fs, pc, run, prev, logger, log, stderr, exitCode, args,
          config_file, file, contents, result, config, parameter_1,
          parameter_2, opens, reads>>

-----------------------------------------------------------------------------
(* Bounds *)

MaxArgs == 3    \* longest argument vector explored (program name included)
MaxRuns == 2    \* process runs explored on one file system

-----------------------------------------------------------------------------
(* serde_json::Value, restricted to scalars, one array and flat objects *)

EmptyMap == [k \in {} |-> 0]

Leaf(tag, val) == [tag |-> tag, val |-> val, map |-> EmptyMap]

NullV == Leaf("Null", "null")

Leaves ==
    { NullV, Leaf("Bool", "true"), Leaf("Number", "42"),
      Leaf("String", "custom"), Leaf("String", "default_value"),
      Leaf("Array", "[]") }

Keys == {"parameter_1", "parameter_2"}

Objects ==
    { [tag |-> "Object", val |-> "", map |-> m] :
        m \in UNION { [K -> Leaves] : K \in SUBSET Keys } }

Values == Leaves \cup Objects

\* Option<&Value>
None == [some |-> FALSE, v |-> NullV]
Some(v) == [some |-> TRUE, v |-> v]

\* Result<Value, Box<dyn Error>>
Ok(v) == [set |-> TRUE, ok |-> TRUE, value |-> v, err |-> ""]
Err(e) == [set |-> TRUE, ok |-> FALSE, value |-> NullV, err |-> e]
NoResult == [set |-> FALSE, ok |-> FALSE, value |-> NullV, err |-> ""]

-----------------------------------------------------------------------------
(* The environment: argument vectors and files *)

NonUnicode == "<bytes that are not valid Unicode>"

ArgWords == {"prog", "config.json", NonUnicode}

Argvs == UNION { [1..n -> ArgWords] : n \in 0..MaxArgs }

Paths == {"prog", "config.json"}

\* what a file holds, as far as the JSON parser tells texts apart
Text(syntax, doc) == [syntax |-> syntax, doc |-> doc]
NoText == Text("none", NullV)

Texts ==
    { Text("ok", v) : v \in Values } \cup { Text("empty", NullV), Text("malformed", NullV) }

FileOf(kind, text) == [kind |-> kind, text |-> text]

Files ==
    { FileOf(k, NoText) : k \in {"missing", "denied", "directory", "binary"} }
        \cup { FileOf("text", t) : t \in Texts }

\* the executable itself: it exists, and it is not UTF-8 text
ProgFile == FileOf("binary", NoText)

-----------------------------------------------------------------------------
(* Library operations the program calls *)

\* std::env::args(): iteration panics on an argument that is not valid Unicode
IsUnicode(a) == a # NonUnicode

ArgsCollectPanics(v) == \E i \in 1..Len(v) : ~IsUnicode(v[i])

\* File::open(path): read-only, fails when the path cannot be opened
FileOpen(f) ==
    CASE f.kind = "missing" -> Err("No such file or directory (os error 2)")
      [] f.kind = "denied"  -> Err("Permission denied (os error 13)")
      [] OTHER              -> Ok(NullV)

\* the open handle held by load_config's `file`
NoFile == [open |-> FALSE, path |-> ""]
Handle(path) == [open |-> TRUE, path |-> path]

\* file.read_to_string(&mut contents)
ReadOk(t) == [ok |-> TRUE, text |-> t, err |-> ""]
ReadErr(e) == [ok |-> FALSE, text |-> NoText, err |-> e]

ReadToString(f) ==
    CASE f.kind = "directory" -> ReadErr("Is a directory (os error 21)")
      [] f.kind = "binary"    -> ReadErr("stream did not contain valid UTF-8")
      [] OTHER                -> ReadOk(f.text)

\* serde_json::from_str::<Value>(&contents): any well-formed JSON value is accepted
FromStrObjectOnly(t) ==
    CASE t.syntax = "ok" /\ t.doc.tag = "Object" -> Ok(t.doc)
      [] t.syntax = "ok" -> Err("invalid type: expected a map at line 1 column 1")
      [] t.syntax = "empty" -> Err("EOF while parsing a value at line 1 column 0")
      [] OTHER -> Err("expected value at line 1 column 1")

FromStr(t) ==
    CASE t.syntax = "ok"    -> Ok(t.doc)
      [] t.syntax = "empty" -> Err("EOF while parsing a value at line 1 column 0")
      [] OTHER              -> Err("expected value at line 1 column 1")

\* `file` goes out of scope when load_config returns, on `?` as on Ok(json)
Forget(h) == h

Drop(h) == NoFile

\* closing a handle opened read-only leaves the file system as it was
FsAfterRemove(fsys, path) == [fsys EXCEPT ![path] = FileOf("missing", NoText)]

FsAfterClose(fsys, path) == fsys

\* Value::get(&self, key: &str): Some only for an object holding the key
Get(v, key) ==
    IF v.tag = "Object" /\ key \in DOMAIN v.map THEN Some(v.map[key]) ELSE None

\* Option::unwrap_or
UnwrapOrSkipNull(opt, d) == IF opt.some /\ opt.v # NullV THEN opt.v ELSE d

UnwrapOr(opt, d) == IF opt.some THEN opt.v ELSE d

\* impl Display for Value: compact JSON, so a string keeps its quotes
Display(v) == IF v.tag = "String" THEN "\"" \o v.val \o "\"" ELSE v.val

\* error!(..) / info!(..)
Error(msg) == [level |-> "ERROR", msg |-> msg]
Info(msg) == [level |-> "INFO", msg |-> msg]

-----------------------------------------------------------------------------
(* main's constants and local bindings *)

NoExit == 255    \* exitCode while the process is still running
PanicCode == 101 \* exit status of a Rust process whose main thread panicked

default_parameter_1 == Leaf("String", "default_value")

\* a local that has not been bound yet
Unbound == [some |-> FALSE, v |-> Leaf("unbound", "")]

Parameter1Of(cfg) == UnwrapOr(Get(cfg, "parameter_1"), default_parameter_1)

Parameter2OrDefault(cfg) == Some(UnwrapOr(Get(cfg, "parameter_2"), default_parameter_1))

Parameter2Of(cfg) == Get(cfg, "parameter_2")

UsageLine(a) == Error("Usage: " \o a[1] \o " <config.json>")
LoadFailedLine(e) == Error("Failed to load configuration: " \o e)
MandatoryLine == Error("Error: 'parameter_2' is mandatory but is not provided.")
Parameter1Line(v) == Info("Parameter 1: " \o Display(v))
Parameter2Line(v) == Info("Parameter 2: " \o Display(v))
PerformingLine == Info("Performing actions based on the configuration...")
CompletedLine == Info("Configuration evaluation completed successfully.")

NoPrev == [exitCode |-> NoExit, config |-> Unbound,
           parameter_1 |-> Unbound, parameter_2 |-> Unbound]

-----------------------------------------------------------------------------
(* The state machine *)

env == <<argv, fs, run, prev>>
locals == <<args, config_file, file, contents, result, config, parameter_1,
            parameter_2>>
io == <<opens, reads>>

ProcessStart ==
    /\ pc = "main"
    /\ logger = FALSE
    /\ log = <<>>
    /\ stderr = <<>>
    /\ exitCode = NoExit
    /\ args = <<>>
    /\ config_file = ""
    /\ file = NoFile
    /\ contents = NoText
    /\ result = NoResult
    /\ config = Unbound
    /\ parameter_1 = Unbound
    /\ parameter_2 = Unbound
    /\ opens = 0
    /\ reads = 0

Init ==
    /\ argv \in Argvs
    /\ fs \in { f \in [Paths -> Files] : f["prog"] = ProgFile }
    /\ run = 1
    /\ prev = NoPrev
    /\ ProcessStart

\* std::process::exit(code), or main returning (code 0)
Exit(code) == pc' = "exited" /\ exitCode' = code /\ stderr' = stderr

\* a panic on the main thread: message on stderr, status 101, nothing logged
Panic(msg) ==
    /\ pc' = "exited"
    /\ exitCode' = PanicCode
    /\ stderr' = Append(stderr, msg)

\* lines 9-12: env_logger::init(); let args = env::args().collect();
CollectArgs ==
    /\ pc = "main"
    /\ logger' = TRUE
    /\ IF logger
         THEN Panic("env_logger::init should not be called after logger initialized")
                /\ args' = args
         ELSE IF ArgsCollectPanics(argv)
                THEN Panic("argument is not valid Unicode")
                       /\ args' = args
                ELSE /\ args' = argv
                     /\ pc' = "check_args"
                     /\ UNCHANGED <<exitCode, stderr>>
    /\ UNCHANGED <<env, io, log, config_file, file, contents, result, config,
                   parameter_1, parameter_2>>

\* lines 13-17: the argument count check; args[0] is indexed for the usage line
CheckArgs ==
    /\ pc = "check_args"
    /\ IF Len(args) # 2
         THEN IF Len(args) = 0
                THEN Panic("index out of bounds: the len is 0 but the index is 0")
                       /\ UNCHANGED <<log, config_file>>
                ELSE log' = Append(log, UsageLine(args))
                       /\ Exit(1)
                       /\ config_file' = config_file
         ELSE /\ config_file' = args[2]
              /\ pc' = "open"
              /\ UNCHANGED <<log, exitCode, stderr>>
    /\ UNCHANGED <<env, io, logger, args, file, contents, result, config,
                   parameter_1, parameter_2>>

\* lines 20, 52: load_config(config_file): let mut file = File::open(config_file)?;
OpenFile ==
    /\ pc = "open"
    /\ LET r == FileOpen(fs[config_file])
       IN IF r.ok
            THEN /\ file' = Handle(config_file)
                 /\ opens' = opens + 1
                 /\ pc' = "read"
                 /\ result' = result
            ELSE /\ result' = Err(r.err)
                 /\ pc' = "match"
                 /\ UNCHANGED <<file, opens>>
    /\ UNCHANGED <<env, reads, logger, log, stderr, exitCode, args, config_file,
                   contents, config, parameter_1, parameter_2>>

\* lines 53-54: file.read_to_string(&mut contents)?;
ReadFile ==
    /\ pc = "read"
    /\ reads' = reads + 1
    /\ LET r == ReadToString(fs[file.path])
       IN IF r.ok
            THEN /\ contents' = r.text
                 /\ pc' = "parse"
                 /\ UNCHANGED <<file, result, fs>>
            ELSE /\ result' = Err(r.err)
                 /\ file' = Drop(file)
                 /\ fs' = FsAfterClose(fs, file.path)
                 /\ pc' = "match"
                 /\ contents' = contents
    /\ UNCHANGED <<argv, run, prev, opens, logger, log, stderr, exitCode, args,
                   config_file, config, parameter_1, parameter_2>>

\* lines 55-57: let json = serde_json::from_str(&contents)?; Ok(json)
ParseJson ==
    /\ pc = "parse"
    /\ result' = FromStr(contents)
    /\ file' = Drop(file)
    /\ fs' = FsAfterClose(fs, file.path)
    /\ pc' = "match"
    /\ UNCHANGED <<argv, run, prev, io, logger, log, stderr, exitCode, args,
                   config_file, contents, config, parameter_1, parameter_2>>

\* the Err arm replaced by a fallback to an empty document
MatchResultRecover ==
    /\ pc = "match"
    /\ config' = Some(IF result.ok THEN result.value
                      ELSE [tag |-> "Object", val |-> "", map |-> EmptyMap])
    /\ pc' = "resolve"
    /\ UNCHANGED <<log, exitCode, stderr>>
    /\ UNCHANGED <<env, io, logger, args, config_file, file, contents, result,
                   parameter_1, parameter_2>>

\* lines 20-26: let config = match load_config(..) { Ok(config) => .., Err(e) => .. }
MatchResult ==
    /\ pc = "match"
    /\ IF result.ok
         THEN /\ config' = Some(result.value)
              /\ pc' = "resolve"
              /\ UNCHANGED <<log, exitCode, stderr>>
         ELSE /\ log' = Append(log, LoadFailedLine(result.err))
              /\ Exit(1)
              /\ config' = config
    /\ UNCHANGED <<env, io, logger, args, config_file, file, contents, result,
                   parameter_1, parameter_2>>

\* lines 29-32: the two lookups
ResolveParameters ==
    /\ pc = "resolve"
    /\ parameter_1' = Some(Parameter1Of(config.v))
    /\ parameter_2' = Parameter2Of(config.v)
    /\ pc' = "check_mandatory"
    /\ UNCHANGED <<env, io, logger, log, stderr, exitCode, args, config_file,
                   file, contents, result, config>>

\* lines 35-38: if parameter_2.is_none() { error!(..); exit(1) }
CheckMandatory ==
    /\ pc = "check_mandatory"
    /\ IF ~parameter_2.some
         THEN log' = Append(log, MandatoryLine) /\ Exit(1)
         ELSE pc' = "log_params" /\ UNCHANGED <<log, exitCode, stderr>>
    /\ UNCHANGED <<env, io, logger, locals>>

\* logs the default where parameter_1 belongs
LogParametersDefault ==
    /\ pc = "log_params"
    /\ log' = log \o <<Parameter1Line(default_parameter_1),
                       Parameter2Line(parameter_2.v)>>
    /\ pc' = "perform"
    /\ UNCHANGED <<env, io, logger, stderr, exitCode, locals>>

\* lines 41-42: info!("Parameter 1: {}", ..); info!("Parameter 2: {}", ..)
LogParameters ==
    /\ pc = "log_params"
    /\ log' = log \o <<Parameter1Line(parameter_1.v), Parameter2Line(parameter_2.v)>>
    /\ pc' = "perform"
    /\ UNCHANGED <<env, io, logger, stderr, exitCode, locals>>

\* lines 45-49: the placeholder step, the completion line, return from main
PerformActions ==
    /\ pc = "perform"
    /\ log' = log \o <<PerformingLine, CompletedLine>>
    /\ Exit(0)
    /\ UNCHANGED <<env, io, logger, locals>>

\* the program is started again: a new process, same argv, same file system
Rerun ==
    /\ pc = "exited"
    /\ run < MaxRuns
    /\ run' = run + 1
    /\ prev' = [exitCode |-> exitCode, config |-> config,
                parameter_1 |-> parameter_1, parameter_2 |-> parameter_2]
    /\ pc' = "main"
    /\ logger' = FALSE
    /\ log' = <<>>
    /\ stderr' = <<>>
    /\ exitCode' = NoExit
    /\ args' = <<>>
    /\ config_file' = ""
    /\ file' = NoFile
    /\ contents' = NoText
    /\ result' = NoResult
    /\ config' = Unbound
    /\ parameter_1' = Unbound
    /\ parameter_2' = Unbound
    /\ opens' = 0
    /\ reads' = 0
    /\ UNCHANGED <<argv, fs>>

Next ==
    \/ CollectArgs
    \/ CheckArgs
    \/ OpenFile
    \/ ReadFile
    \/ ParseJson
    \/ MatchResult
    \/ ResolveParameters
    \/ CheckMandatory
    \/ LogParameters
    \/ PerformActions
    \/ Rerun

Spec == Init /\ [][Next]_vars

-----------------------------------------------------------------------------
(* Vocabulary of the properties *)

Terminated == pc = "exited"

HasKey(v, key) == v.tag = "Object" /\ key \in DOMAIN v.map

\* this run passed the argument check and called load_config
LoadCalled == config_file # ""

WellFormed(f) == f.kind = "text" /\ f.text.syntax = "ok"

\* why load_config fails on file f
UnderlyingReason(f) ==
    IF ~FileOpen(f).ok THEN FileOpen(f).err
    ELSE IF ~ReadToString(f).ok THEN ReadToString(f).err
    ELSE FromStr(f.text).err

IsUsageLine(l) == \E a \in ArgWords : l = Error("Usage: " \o a \o " <config.json>")

ErrorLines == { i \in 1..Len(log) : log[i].level = "ERROR" }
InfoLines == { i \in 1..Len(log) : log[i].level = "INFO" }

NothingLoaded ==
    /\ ~LoadCalled
    /\ opens = 0
    /\ reads = 0
    /\ ~file.open
    /\ result = NoResult

NothingResolved == config = Unbound /\ parameter_1 = Unbound /\ parameter_2 = Unbound

\* the four conditions of a successful run, read off the environment
RunShouldSucceed ==
    /\ Len(argv) = 2
    /\ argv[2] \in Paths
    /\ WellFormed(fs[argv[2]])
    /\ HasKey(fs[argv[2]].text.doc, "parameter_2")

-----------------------------------------------------------------------------
(* C1 *)

\* C1: a finished run has exit code 0 if and only if exactly one argument was
\* given, the file was opened and read as UTF-8, it parsed as JSON and the
\* document holds the key parameter_2; in every other case the exit code is 1.
C1_ExitCodeZeroIffAllFourElseOne ==
    Terminated =>
        /\ (exitCode = 0) <=> RunShouldSucceed
        /\ ~RunShouldSucceed => exitCode = 1

-----------------------------------------------------------------------------
(* C2 *)

\* C2: with an argument vector whose length is not 2, the run exits non-zero,
\* its log is the usage line at error level, and load_config is never called:
\* no file is opened or read.
C2_WrongArgCountUsageNoIO ==
    Len(argv) # 2 =>
        /\ NothingLoaded
        /\ Terminated =>
              /\ exitCode # 0
              /\ Len(log) = 1
              /\ IsUsageLine(log[1])

-----------------------------------------------------------------------------
(* C3 *)

\* C3: when the parsed document lacks parameter_2, the lookup yields None (no
\* default takes its place), the value-logging steps are never reached, and
\* the run ends with the mandatory-field error line and exit code 1, with or
\* without parameter_1 in the document.
C3_MissingParameter2IsFatal ==
    (config.some /\ ~HasKey(config.v, "parameter_2")) =>
        /\ pc \notin {"log_params", "perform"}
        /\ pc \in {"check_mandatory", "exited"} => parameter_2 = None
        /\ Terminated => (exitCode = 1 /\ log = <<MandatoryLine>>)

C3_Witness ==
    /\ Terminated
    /\ config.some
    /\ HasKey(config.v, "parameter_1")
    /\ ~HasKey(config.v, "parameter_2")
    /\ exitCode = 1

-----------------------------------------------------------------------------
(* C4 *)

Parameter1Resolved == pc \in {"check_mandatory", "log_params", "perform"}
                        \/ (Terminated /\ config.some)

\* C4 as stated: once resolved, parameter_1 is bound; it is the document's
\* value when the key exists, it equals "default_value" exactly when the key
\* is absent, and config is still the document parsed from the file.
C4_DefaultExactlyWhenAbsent ==
    Parameter1Resolved =>
        /\ parameter_1.some
        /\ HasKey(config.v, "parameter_1") =>
              parameter_1.v = config.v.map["parameter_1"]
        /\ (parameter_1.v = Leaf("String", "default_value"))
              <=> ~HasKey(config.v, "parameter_1")
        /\ config = Some(fs[config_file].text.doc)

\* C4 amended: once resolved, parameter_1 is bound; it is the document's
\* value when the key exists (null included) and "default_value" when the key
\* is absent; config is still the document parsed from the file.
C4_DefaultWhenAbsent ==
    Parameter1Resolved =>
        /\ parameter_1.some
        /\ HasKey(config.v, "parameter_1") =>
              parameter_1.v = config.v.map["parameter_1"]
        /\ ~HasKey(config.v, "parameter_1") =>
              parameter_1.v = Leaf("String", "default_value")
        /\ config = Some(fs[config_file].text.doc)

C4_Witness ==
    /\ Parameter1Resolved
    /\ HasKey(config.v, "parameter_1")
    /\ config.v.map["parameter_1"] = Leaf("String", "default_value")
    /\ parameter_1 = Some(Leaf("String", "default_value"))

-----------------------------------------------------------------------------
(* C5 *)

\* C5: when the file cannot be opened, read as UTF-8 or parsed, load_config
\* opens and reads at most once and returns Err with the underlying reason;
\* main then logs the load-failure line with that reason and exits 1 with
\* config, parameter_1 and parameter_2 never bound.
C5_LoadFailurePropagates ==
    (LoadCalled /\ ~WellFormed(fs[config_file])) =>
        /\ opens <= 1
        /\ reads <= 1
        /\ NothingResolved
        /\ pc \in {"open", "read", "parse", "match", "exited"}
        /\ pc \in {"match", "exited"} =>
              result = Err(UnderlyingReason(fs[config_file]))
        /\ Terminated =>
              /\ exitCode = 1
              /\ log = <<LoadFailedLine(UnderlyingReason(fs[config_file]))>>

C5_Witness ==
    /\ Terminated
    /\ LoadCalled
    /\ fs[config_file].kind = "text"
    /\ fs[config_file].text.syntax = "malformed"
    /\ exitCode = 1
    /\ reads = 1

-----------------------------------------------------------------------------
(* C6 *)

\* C6: a run that exits non-zero emits exactly one error-level line, as its
\* last log event, and no informational line; it has executed no step after
\* the failing one (a usage failure loads nothing, a load failure resolves
\* nothing).
C6_AbortAtFirstFailingStep ==
    (Terminated /\ exitCode # 0) =>
        /\ Cardinality(ErrorLines) = 1
        /\ Len(log) \in ErrorLines
        /\ InfoLines = {}
        /\ IsUsageLine(log[Len(log)]) => NothingLoaded /\ NothingResolved
        /\ (result.set /\ ~result.ok) => NothingResolved

-----------------------------------------------------------------------------
(* C7 *)

ExampleBoth ==
    [tag |-> "Object", val |-> "",
     map |-> [k \in Keys |-> IF k = "parameter_1" THEN Leaf("String", "custom")
                                                  ELSE Leaf("Number", "42")]]

-----------------------------------------------------------------------------
(* C8 *)

\* C8: a run opens at most one file handle and performs at most one read; the
\* handle is open only between File::open and load_config's return, so it is
\* closed whenever main matches the result, resolves, logs or has exited.
C8_OneHandleClosedOutsideLoad ==
    /\ opens <= 1
    /\ reads <= 1
    /\ reads <= opens
    /\ file.open => pc \in {"read", "parse"}

C8_Witness ==
    /\ Terminated
    /\ opens = 1
    /\ reads = 1
    /\ ~file.open
    /\ ~result.ok

-----------------------------------------------------------------------------
(* C9 *)

-----------------------------------------------------------------------------
(* C10 *)

\* C10: when the file holds a well-formed JSON value that is not an object,
\* load_config returns Ok with that value, both lookups find nothing
\* (parameter_1 is the default, parameter_2 is None), and the run ends with
\* the mandatory-field error line and exit code 1, not with a load failure.
C10_NonObjectDocumentLacksBothKeys ==
    (LoadCalled /\ WellFormed(fs[config_file])
        /\ fs[config_file].text.doc.tag # "Object") =>
        /\ pc \in {"match", "exited"} => result = Ok(fs[config_file].text.doc)
        /\ pc \in {"check_mandatory", "exited"} =>
              /\ parameter_1 = Some(Leaf("String", "default_value"))
              /\ parameter_2 = None
        /\ Terminated => (exitCode = 1 /\ log = <<MandatoryLine>>)

C10_Witness ==
    /\ Terminated
    /\ LoadCalled
    /\ WellFormed(fs[config_file])
    /\ fs[config_file].text.doc.tag = "Array"
    /\ exitCode = 1
    /\ log = <<MandatoryLine>>

====
